---- MODULE Spec2Model ----
(***************************************************************************)
(* Model of the engine sound generator (src/main.py): the FreqAnimator     *)
(* state machine and the GeneratorAudio engine that drives it from the     *)
(* audio callback.                                                         *)
(*                                                                         *)
(* Time.  The code keeps times as Python floats (seconds).  The model      *)
(* keeps them as exact integers, in ticks.  For the engine one tick is     *)
(* 1 / (SAMPLE_RATE * ANIM_RATE) second, so that dt = i / SAMPLE_RATE is   *)
(* i * ANIM_RATE ticks and time_step = 1 / ANIM_RATE is SAMPLE_RATE ticks. *)
(* Floating point rounding is not modelled.                                *)
(*                                                                         *)
(* Exceptions.  A call that raises is modelled by its result's err field   *)
(* together with the assignments the code made before the raise.           *)
(***************************************************************************)
EXTENDS Integers, Sequences, FiniteSets, TLC

\* ------------------------------------------------------------ constants
SAMPLE_RATE == 44100
SAMPLE_SIZE == 4
FRAME_SIZE == SAMPLE_SIZE
START_FREQUENCY == 220
ANIM_RATE == 250

INIT_STATE == "init"
RUNNING_STATE == ""
DONE_STATE == "done"

NoError == "none"
UnboundLocalError == "UnboundLocalError"
IndexError == "IndexError"
InactiveGeneratorError == "InactiveGeneratorError"

STATE_OFF == "off"
STATE_STEADY == "steady"
STATE_GOING_UP == "up"
STATE_GOING_DOWN == "down"

\* one second in ticks; 1 / rate and i / SAMPLE_RATE in ticks
TicksPerSecond == SAMPLE_RATE * ANIM_RATE
TimeStep(rate) == TicksPerSecond \div rate
Dt(i) == i * (TicksPerSecond \div SAMPLE_RATE)

\* ------------------------------------------------------------ bounds
\* the stand-alone animator: leg sequences, goals, step length, dt, inputs
MaxLegs == 2
MaxGoal == 2
MaxStepTicks == 2
MaxDt == 3
MaxValue == 1
MaxAnimCalls == 4
\* the engine: the largest frame_count of a callback, operations per run
MaxFrames == 272
MaxOps == 6
\* the two threads: control operations and device callbacks per run
MaxCtlOps == 4
MaxCallbacks == 2

\* ------------------------------------------------------------ helpers
Abs(x) == IF x < 0 THEN -x ELSE x

RECURSIVE SumSeq(_)
SumSeq(s) == IF s = <<>> THEN 0 ELSE Head(s) + SumSeq(Tail(s))

RECURSIVE SumAbs(_)
SumAbs(s) == IF s = <<>> THEN 0 ELSE Abs(Head(s)) + SumAbs(Tail(s))

HasZeroLeg(s) == \E k \in 1..Len(s) : s[k] = 0
AllNonZero(s) == Len(s) > 0 /\ \A k \in 1..Len(s) : s[k] # 0

\* ------------------------------------------------------------ FreqAnimator
\* FreqAnimator(rate, *states): time_step is 1 / rate, given here in ticks.
\* cur_value, state_i, state_progress and accum_time do not exist as
\* attributes until the first next(); no code path reads them before the
\* INIT_STATE branch has assigned them, so 0 stands for "not yet set".
FreqAnimator(time_step, states) ==
    [ states         |-> states,
      time_step      |-> time_step,
      anim_state     |-> INIT_STATE,
      cur_value      |-> 0,
      state_i        |-> 0,
      state_progress |-> 0,
      accum_time     |-> 0 ]

AnimReset(a) == [a EXCEPT !.anim_state = INIT_STATE]

AnimIsDone(a) == a.anim_state = DONE_STATE

\* mutant of AnimCapture: the capture leaves accum_time as the last run left it
AnimCaptureKeepsTime(a, old_val) ==
    IF a.anim_state = INIT_STATE
    THEN [a EXCEPT !.cur_value = old_val,
                   !.state_i = 0,
                   !.state_progress = 0,
                   !.anim_state = RUNNING_STATE]
    ELSE a

\* lines 50-61: the first call after construction or reset captures old_val
AnimCapture(a, old_val) ==
    IF a.anim_state = INIT_STATE
    THEN [a EXCEPT !.cur_value = old_val,
                   !.state_i = 0,
                   !.state_progress = 0,
                   !.accum_time = 0,
                   !.anim_state = RUNNING_STATE]
    ELSE a

\* goal // abs(goal) for goal # 0
Direction(goal) == IF goal > 0 THEN 1 ELSE -1

\* mutant of AnimMove: the leg ends one step late (> for >=)
AnimMoveLate(a, goal) ==
    LET direction == Direction(goal)
        moved == [a EXCEPT !.state_progress = @ + direction,
                           !.cur_value = @ + direction]
    IN  IF Abs(moved.state_progress) > Abs(goal)
        THEN LET adv == [moved EXCEPT !.state_i = @ + 1,
                                      !.state_progress = 0]
             IN  IF adv.state_i >= Len(adv.states)
                 THEN [adv EXCEPT !.anim_state = DONE_STATE]
                 ELSE adv
        ELSE moved

\* lines 83-100: one unit step towards the current leg's goal
AnimMove(a, goal) ==
    LET direction == Direction(goal)
        moved == [a EXCEPT !.state_progress = @ + direction,
                           !.cur_value = @ + direction]
    IN  IF Abs(moved.state_progress) >= Abs(goal)
        THEN LET adv == [moved EXCEPT !.state_i = @ + 1,
                                      !.state_progress = 0]
             IN  IF adv.state_i >= Len(adv.states)
                 THEN [adv EXCEPT !.anim_state = DONE_STATE]
                 ELSE adv
        ELSE moved

\* lines 69-100: "if accum_time >= time_step" (an if, one step per call)
AnimStep(a) ==
    IF a.accum_time >= a.time_step
    THEN LET b == [a EXCEPT !.accum_time = @ - a.time_step]
         IN  IF b.state_i >= Len(b.states)
             THEN \* self.states[self.state_i] past the end of the list
                  [anim |-> b, err |-> IndexError]
             ELSE LET goal == b.states[b.state_i + 1]
                  IN  IF goal = 0
                      THEN \* "state += 1": state is an unassigned local
                           [anim |-> b, err |-> UnboundLocalError]
                      ELSE [anim |-> AnimMove(b, goal), err |-> NoError]
    ELSE [anim |-> a, err |-> NoError]

\* mutant of AnimNext: a Done animator hands back its input like FreqConst
AnimNextDoneFollowsInput(a, dt, old_val) ==
    LET b == AnimCapture(a, old_val)
    IN  IF b.anim_state # DONE_STATE
        THEN LET r == AnimStep([b EXCEPT !.accum_time = @ + dt])
             IN  [anim |-> r.anim, ret |-> r.anim.cur_value, err |-> r.err]
        ELSE [anim |-> b, ret |-> old_val, err |-> NoError]

\* FreqAnimator.next(dt, old_val): the animator afterwards, the value
\* returned (meaningful when err = NoError) and the exception raised.
AnimNext(a, dt, old_val) ==
    LET b == AnimCapture(a, old_val)
    IN  IF b.anim_state # DONE_STATE
        THEN LET r == AnimStep([b EXCEPT !.accum_time = @ + dt])
             IN  [anim |-> r.anim, ret |-> r.anim.cur_value, err |-> r.err]
        ELSE [anim |-> b, ret |-> b.cur_value, err |-> NoError]


\* ------------------------------------------------------------ GeneratorAudio
\* The three animators an aud_cb call can hold in its local freq_anim.
CONST_ANIM == "const_freq_anim"
UP_ANIM == "up_freq_anim"
DOWN_ANIM == "down_freq_anim"

\* cur_time before the first loop iteration has assigned it
Unbound == -1

\* GeneratorAudio.__init__; buf is len(self.buf)
GeneratorAudio(cur_freq, anim_rate) ==
    [ last_time      |-> 0,
      buf            |-> 0,
      state          |-> STATE_OFF,
      cur_freq       |-> cur_freq,
      up_freq_anim   |-> FreqAnimator(TimeStep(anim_rate), <<100, -25, 50>>),
      down_freq_anim |-> FreqAnimator(TimeStep(anim_rate), <<-100, 25, -50>>) ]

IsActive(e) == e.state # STATE_OFF

\* mutant of StepUp: no is_active() test
StepUpUnchecked(e) ==
    LET r == IF e.state # STATE_GOING_UP
             THEN [e EXCEPT !.up_freq_anim = AnimReset(@)]
             ELSE e
    IN  [eng |-> [r EXCEPT !.state = STATE_GOING_UP], err |-> NoError]

\* mutant of StepUp: the animator is reset on every call
StepUpAlwaysReset(e) ==
    IF IsActive(e)
    THEN [eng |-> [e EXCEPT !.up_freq_anim = AnimReset(@), !.state = STATE_GOING_UP],
          err |-> NoError]
    ELSE [eng |-> e, err |-> InactiveGeneratorError]

\* mutant of StepUp: the animator is never reset
StepUpNoReset(e) ==
    IF IsActive(e)
    THEN [eng |-> [e EXCEPT !.state = STATE_GOING_UP], err |-> NoError]
    ELSE [eng |-> e, err |-> InactiveGeneratorError]

\* step_up / step_down: the engine afterwards and the exception raised
StepUp(e) ==
    IF IsActive(e)
    THEN LET r == IF e.state # STATE_GOING_UP
                  THEN [e EXCEPT !.up_freq_anim = AnimReset(@)]
                  ELSE e
         IN  [eng |-> [r EXCEPT !.state = STATE_GOING_UP], err |-> NoError]
    ELSE [eng |-> e, err |-> InactiveGeneratorError]

StepDown(e) ==
    IF IsActive(e)
    THEN LET r == IF e.state # STATE_GOING_DOWN
                  THEN [e EXCEPT !.down_freq_anim = AnimReset(@)]
                  ELSE e
         IN  [eng |-> [r EXCEPT !.state = STATE_GOING_DOWN], err |-> NoError]
    ELSE [eng |-> e, err |-> InactiveGeneratorError]

\* mutant of Start: a start from Off begins again at the starting frequency
StartFresh(e) ==
    IF ~IsActive(e)
    THEN [e EXCEPT !.state = STATE_STEADY, !.cur_freq = START_FREQUENCY]
    ELSE e

\* mutant of Start: no is_active() test
StartAlways(e) == [e EXCEPT !.state = STATE_STEADY]

Start(e) == IF ~IsActive(e) THEN [e EXCEPT !.state = STATE_STEADY] ELSE e

Stop(e) == IF IsActive(e) THEN [e EXCEPT !.state = STATE_OFF] ELSE e

\* lines 174-175
ResizeBuf(e, frame_count) ==
    IF frame_count * FRAME_SIZE # e.buf
    THEN [e EXCEPT !.buf = frame_count * FRAME_SIZE]
    ELSE e

\* lines 179-185
SelectAnim(st) ==
    IF st = STATE_GOING_UP THEN UP_ANIM
    ELSE IF st = STATE_GOING_DOWN THEN DOWN_ANIM
    ELSE CONST_ANIM

\* the locals of aud_cb on entry to the loop (lines 177-185)
AudLocals(e) ==
    [ freq |-> e.cur_freq, freq_anim |-> SelectAnim(e.state), cur_time |-> Unbound ]

\* line 190: the time at which sample i is synthesized
SampleTime(last_time, i) == last_time + Dt(i)

\* lines 189-198 of iteration i: the sample is synthesized at cur_time with
\* freq (its value is not modelled) and freq_anim.next(dt, freq) is called
SampleNext(e, l, i) ==
    LET dt == Dt(i)
        t  == SampleTime(e.last_time, i)
    IN  IF l.freq_anim = CONST_ANIM
        THEN [eng |-> e, loc |-> [l EXCEPT !.cur_time = t], err |-> NoError]
        ELSE LET r == AnimNext(e[l.freq_anim], dt, l.freq)
             IN  [eng |-> [e EXCEPT ![l.freq_anim] = r.anim],
                  loc |-> IF r.err = NoError
                          THEN [l EXCEPT !.cur_time = t, !.freq = r.ret]
                          ELSE [l EXCEPT !.cur_time = t],
                  err |-> r.err]

\* mutant of SampleCheck: a finished ramp switches to the constant animator
\* but leaves self.state as it was
SampleCheckKeepsState(e, l) ==
    IF l.freq_anim # CONST_ANIM /\ AnimIsDone(e[l.freq_anim])
    THEN [eng |-> e, loc |-> [l EXCEPT !.freq_anim = CONST_ANIM]]
    ELSE [eng |-> e, loc |-> l]

\* lines 201-203
SampleCheck(e, l) ==
    IF l.freq_anim # CONST_ANIM /\ AnimIsDone(e[l.freq_anim])
    THEN [eng |-> [e EXCEPT !.state = STATE_STEADY],
          loc |-> [l EXCEPT !.freq_anim = CONST_ANIM]]
    ELSE [eng |-> e, loc |-> l]

\* lines 189-203: one iteration of the loop; after an exception nothing runs
SampleBody(s, i) ==
    IF s.err # NoError
    THEN s
    ELSE LET n == SampleNext(s.eng, s.loc, i)
         IN  IF n.err # NoError
             THEN n
             ELSE LET c == SampleCheck(n.eng, n.loc)
                  IN  [eng |-> c.eng, loc |-> c.loc, err |-> NoError]

\* line 188: iterations lo .. hi - 1 in order (the range is halved only to
\* keep the evaluation shallow)
RECURSIVE AudRange(_, _, _)
AudRange(s, lo, hi) ==
    IF hi <= lo THEN s
    ELSE IF hi = lo + 1 THEN SampleBody(s, lo)
    ELSE LET mid == (lo + hi) \div 2
             first == AudRange(s, lo, mid)
         IN  IF first.err = NoError
             THEN AudRange(first, mid, hi)
             ELSE first

AudLoop(e, l, frame_count) ==
    AudRange([eng |-> e, loc |-> l, err |-> NoError], 0, frame_count)

\* lines 205-209: cur_time is unbound when the loop body never ran
AudFinish(e, l, frame_count) ==
    IF l.cur_time = Unbound
    THEN [eng |-> e, err |-> UnboundLocalError, len |-> 0, silent |-> FALSE]
    ELSE [eng |-> [e EXCEPT !.last_time = l.cur_time, !.cur_freq = l.freq],
          err |-> NoError, len |-> e.buf, silent |-> FALSE]

\* aud_cb(frame_count): the engine afterwards, the exception raised and
\* the length in bytes of the buffer returned
AudCb(e, frame_count) ==
    LET e1 == ResizeBuf(e, frame_count)
        r  == AudLoop(e1, AudLocals(e1), frame_count)
    IN  IF r.err # NoError
        THEN [eng |-> r.eng, err |-> r.err, len |-> 0, silent |-> FALSE]
        ELSE AudFinish(r.eng, r.loc, frame_count)

\* mutant of PaCallback: aud_cb is called whatever the state
PaCallbackAlways(e, frame_count) == AudCb(e, frame_count)

\* pa_callback(in_data, frame_count, time_info, status)
PaCallback(e, frame_count) ==
    IF IsActive(e)
    THEN AudCb(e, frame_count)
    ELSE [eng |-> e, err |-> NoError, len |-> frame_count * FRAME_SIZE, silent |-> TRUE]

\* ------------------------------------------------------------ state
VARIABLES
    anim,        \* a FreqAnimator used on its own
    a_op,        \* the last operation on anim: "new", "next", "reset", "is_done"
    a_ret,       \* what the last next() returned
    a_err,       \* the exception the last next() raised, or NoError
    a_done,      \* what the last is_done() returned
    a_pre,       \* anim_state before the last operation
    a_first,     \* the value captured by the first next() since construction/reset
    a_sum,       \* sum of the dt passed to next() since construction/reset
    a_steps,     \* next() calls since construction/reset that had a step due
    a_calls,     \* operations made so far
    eng,         \* the GeneratorAudio object
    op,          \* the last engine operation: its name, argument and outcome
    n_ops,       \* engine operations made so far
    stop_phase,  \* 1: stop() came during a ramp, 2: start() followed, 3: a callback followed
    gen_log,     \* the latest consecutive Steady aud_cb calls (at most two):
                 \* frame_count and last_time on entry
    sc_pc,       \* the ramp-up scenario: the operation that comes next
    sc_frames,   \* the ramp-up scenario: the stream's frame_count, 0 before the first callback
    sc_samples,  \* the ramp-up scenario: samples generated since step_up()
    aud,         \* the audio thread: where it is in pa_callback / aud_cb, and aud_cb's locals
    ctl,         \* the control thread: the operation in progress and where it is in it
    c_count,     \* the two threads: control operations and callbacks begun so far
    stopped      \* the two threads: stop() has returned and start() was not called since

animVars == <<anim, a_op, a_ret, a_err, a_done, a_pre, a_first, a_sum, a_steps, a_calls>>
engVars == <<eng, op, n_ops, stop_phase, gen_log>>
scVars == <<sc_pc, sc_frames, sc_samples>>

thrVars == <<aud, ctl, c_count, stopped>>

vars == <<animVars, engVars, scVars, thrVars>>

\* ------------------------------------------------------------ the animator on its own
RECURSIVE SeqsUpTo(_, _)
SeqsUpTo(S, n) ==
    IF n = 0 THEN {<<>>}
    ELSE LET shorter == SeqsUpTo(S, n - 1)
         IN  shorter \cup {Append(s, x) : s \in {t \in shorter : Len(t) = n - 1}, x \in S}

LegSeqs == SeqsUpTo((-MaxGoal)..MaxGoal, MaxLegs)

\* the engine is not part of the stand-alone animator runs, and vice versa
EngIdle ==
    /\ eng = GeneratorAudio(START_FREQUENCY, ANIM_RATE)
    /\ op = [name |-> "init", frame_count |-> 0, err |-> NoError, len |-> 0, silent |-> FALSE]
    /\ n_ops = 0
    /\ stop_phase = 0
    /\ gen_log = <<>>

AnimIdle ==
    /\ anim = FreqAnimator(1, <<>>)
    /\ a_op = "new"
    /\ a_ret = 0
    /\ a_err = NoError
    /\ a_done = FALSE
    /\ a_pre = INIT_STATE
    /\ a_first = 0
    /\ a_sum = 0
    /\ a_steps = 0
    /\ a_calls = 0

ScIdle ==
    /\ sc_pc = "start"
    /\ sc_frames = 0
    /\ sc_samples = 0

AudIdle ==
    [pc |-> "idle", frame_count |-> 0, i |-> 0,
     loc |-> [freq |-> 0, freq_anim |-> CONST_ANIM, cur_time |-> Unbound]]

CtlIdle == [pc |-> "idle", name |-> "none"]

ThrIdle ==
    /\ aud = AudIdle
    /\ ctl = CtlIdle
    /\ c_count = [ops |-> 0, callbacks |-> 0]
    /\ stopped = FALSE

AnimInit ==
    /\ EngIdle
    /\ ScIdle
    /\ ThrIdle
    /\ anim \in {FreqAnimator(ts, legs) : ts \in 1..MaxStepTicks, legs \in LegSeqs}
    /\ a_op = "new"
    /\ a_ret = 0
    /\ a_err = NoError
    /\ a_done = FALSE
    /\ a_pre = INIT_STATE
    /\ a_first = 0
    /\ a_sum = 0
    /\ a_steps = 0
    /\ a_calls = 0

AnimNextCall ==
    \E dt \in 0..MaxDt, old_val \in 0..MaxValue :
        LET r == AnimNext(anim, dt, old_val)
            fresh == anim.anim_state = INIT_STATE
        IN  /\ a_calls < MaxAnimCalls
            /\ anim' = r.anim
            /\ a_op' = "next"
            /\ a_ret' = r.ret
            /\ a_err' = r.err
            /\ a_pre' = anim.anim_state
            /\ a_first' = IF fresh THEN old_val ELSE a_first
            /\ a_sum' = (IF fresh THEN 0 ELSE a_sum) + dt
            /\ a_steps' = (IF fresh THEN 0 ELSE a_steps)
                          + (IF anim.anim_state # DONE_STATE
                                /\ AnimCapture(anim, old_val).accum_time + dt >= anim.time_step
                             THEN 1 ELSE 0)
            /\ a_calls' = a_calls + 1
            /\ UNCHANGED <<a_done, engVars, scVars, thrVars>>

AnimResetCall ==
    /\ a_calls < MaxAnimCalls
    /\ anim' = AnimReset(anim)
    /\ a_op' = "reset"
    /\ a_pre' = anim.anim_state
    /\ a_calls' = a_calls + 1
    /\ UNCHANGED <<a_ret, a_err, a_done, a_first, a_sum, a_steps, engVars, scVars, thrVars>>

AnimIsDoneCall ==
    /\ a_calls < MaxAnimCalls
    /\ a_done' = AnimIsDone(anim)
    /\ a_op' = "is_done"
    /\ a_pre' = anim.anim_state
    /\ a_calls' = a_calls + 1
    /\ UNCHANGED <<anim, a_ret, a_err, a_first, a_sum, a_steps, engVars, scVars, thrVars>>

AnimNextStep == AnimNextCall \/ AnimResetCall \/ AnimIsDoneCall

SpecAnim == AnimInit /\ [][AnimNextStep]_vars

\* ------------------------------------------------------------ the engine, one operation at a time
\* The control operations and the device callback, each run to completion.
FrameCounts == {0, 1, MaxFrames \div 8, MaxFrames}

Ramping(e) == e.state \in {STATE_GOING_UP, STATE_GOING_DOWN}

Outcome(name, frame_count, err, len, silent) ==
    [name |-> name, frame_count |-> frame_count, err |-> err, len |-> len, silent |-> silent]

Init ==
    /\ EngIdle
    /\ AnimIdle
    /\ ScIdle
    /\ ThrIdle

DoStart ==
    /\ n_ops < MaxOps
    /\ eng' = Start(eng)
    /\ op' = Outcome("start", 0, NoError, 0, FALSE)
    /\ n_ops' = n_ops + 1
    /\ stop_phase' = IF stop_phase = 1 THEN 2 ELSE 0
    /\ gen_log' = <<>>
    /\ UNCHANGED <<animVars, scVars, thrVars>>

DoStop ==
    /\ n_ops < MaxOps
    /\ eng' = Stop(eng)
    /\ op' = Outcome("stop", 0, NoError, 0, FALSE)
    /\ n_ops' = n_ops + 1
    /\ stop_phase' = IF Ramping(eng) THEN 1 ELSE 0
    /\ gen_log' = <<>>
    /\ UNCHANGED <<animVars, scVars, thrVars>>

DoStepUp ==
    LET r == StepUp(eng)
    IN  /\ n_ops < MaxOps
        /\ eng' = r.eng
        /\ op' = Outcome("step_up", 0, r.err, 0, FALSE)
        /\ n_ops' = n_ops + 1
        /\ stop_phase' = 0
        /\ gen_log' = <<>>
        /\ UNCHANGED <<animVars, scVars, thrVars>>

DoStepDown ==
    LET r == StepDown(eng)
    IN  /\ n_ops < MaxOps
        /\ eng' = r.eng
        /\ op' = Outcome("step_down", 0, r.err, 0, FALSE)
        /\ n_ops' = n_ops + 1
        /\ stop_phase' = 0
        /\ gen_log' = <<>>
        /\ UNCHANGED <<animVars, scVars, thrVars>>

DoPaCallback ==
    \E frame_count \in FrameCounts :
        LET r == PaCallback(eng, frame_count)
            steady == /\ eng.state = STATE_STEADY
                      /\ r.err = NoError
            entry == [frame_count |-> frame_count, last_time |-> eng.last_time]
        IN  /\ n_ops < MaxOps
            /\ eng' = r.eng
            /\ op' = Outcome("pa_callback", frame_count, r.err, r.len, r.silent)
            /\ n_ops' = n_ops + 1
            /\ stop_phase' = IF stop_phase = 2 /\ steady THEN 3 ELSE 0
            /\ gen_log' = IF steady
                          THEN IF Len(gen_log) = 0 THEN <<entry>>
                               ELSE <<gen_log[Len(gen_log)], entry>>
                          ELSE <<>>
            /\ UNCHANGED <<animVars, scVars, thrVars>>

Next == DoStart \/ DoStop \/ DoStepUp \/ DoStepDown \/ DoPaCallback

Spec == Init /\ [][Next]_vars

\* ------------------------------------------------------------ the ramp-up scenario
\* start(), step_up(), then callbacks only, until the samples generated
\* cover the ramp's duration.  The device asks for the same frame_count in
\* every callback of a run, as a stream opened with one frames_per_buffer
\* does; the runs differ in that frame_count.
ScenarioFrames == {1, 2, 3, MaxFrames \div 8, MaxFrames}

UpLegs == GeneratorAudio(START_FREQUENCY, ANIM_RATE).up_freq_anim.states

\* the samples of (sum of |goal|) / ANIM_RATE seconds: 0.7 s at 44100 Hz
RampSamples == (SumAbs(UpLegs) * SAMPLE_RATE) \div ANIM_RATE

ScInit ==
    /\ EngIdle
    /\ AnimIdle
    /\ ScIdle
    /\ ThrIdle

ScStart ==
    /\ sc_pc = "start"
    /\ eng' = Start(eng)
    /\ op' = Outcome("start", 0, NoError, 0, FALSE)
    /\ sc_pc' = "step_up"
    /\ UNCHANGED <<animVars, thrVars, n_ops, stop_phase, gen_log, sc_frames, sc_samples>>

ScStepUp ==
    LET r == StepUp(eng)
    IN  /\ sc_pc = "step_up"
        /\ eng' = r.eng
        /\ op' = Outcome("step_up", 0, r.err, 0, FALSE)
        /\ sc_pc' = "generate"
        /\ UNCHANGED <<animVars, thrVars, n_ops, stop_phase, gen_log, sc_frames, sc_samples>>

ScGenerate ==
    \E frame_count \in ScenarioFrames :
        LET r == PaCallback(eng, frame_count)
        IN  /\ sc_pc = "generate"
            /\ sc_frames \in {0, frame_count}
            /\ sc_samples < RampSamples
            /\ sc_frames' = frame_count
            /\ eng' = r.eng
            /\ op' = Outcome("pa_callback", frame_count, r.err, r.len, r.silent)
            /\ sc_samples' = sc_samples + frame_count
            /\ UNCHANGED <<animVars, thrVars, n_ops, stop_phase, gen_log, sc_pc>>

ScNext == ScStart \/ ScStepUp \/ ScGenerate

SpecScenario == ScInit /\ [][ScNext]_vars

\* ------------------------------------------------------------ the two threads
\* The control thread (the command loop) runs start / stop / step_up /
\* step_down one after the other; the audio thread runs pa_callback.  Nothing
\* in the code synchronizes them, so the steps below interleave freely.  A
\* step is one read or write of the shared engine fields, except that one
\* FreqAnimator.next() call is taken as a single step.
ConcFrames == {1, MaxFrames}

CtlOps == {"start", "stop", "step_up", "step_down"}

thrFrame == <<animVars, scVars, n_ops, stop_phase, gen_log>>

\* line 165: pa_callback tests is_active()
AudCall ==
    \E frame_count \in ConcFrames :
        /\ aud.pc = "idle"
        /\ c_count.callbacks < MaxCallbacks
        /\ c_count' = [c_count EXCEPT !.callbacks = @ + 1]
        /\ IF IsActive(eng)
           THEN /\ aud' = [AudIdle EXCEPT !.pc = "aud_cb", !.frame_count = frame_count]
                /\ UNCHANGED op
           ELSE /\ aud' = AudIdle
                /\ op' = Outcome("pa_callback", frame_count, NoError,
                                 frame_count * FRAME_SIZE, TRUE)
        /\ UNCHANGED <<eng, ctl, stopped, thrFrame>>

\* lines 174-179
AudBegin ==
    /\ aud.pc = "aud_cb"
    /\ eng' = ResizeBuf(eng, aud.frame_count)
    /\ aud' = [aud EXCEPT !.pc = "select_up",
                          !.loc = [freq |-> eng.cur_freq, freq_anim |-> CONST_ANIM,
                                   cur_time |-> Unbound]]
    /\ UNCHANGED <<op, ctl, c_count, stopped, thrFrame>>

\* lines 180-182
AudSelectUp ==
    /\ aud.pc = "select_up"
    /\ aud' = IF eng.state = STATE_GOING_UP
              THEN [aud EXCEPT !.pc = "loop", !.loc.freq_anim = UP_ANIM]
              ELSE [aud EXCEPT !.pc = "select_down"]
    /\ UNCHANGED <<eng, op, ctl, c_count, stopped, thrFrame>>

\* lines 183-185
AudSelectDown ==
    /\ aud.pc = "select_down"
    /\ aud' = IF eng.state = STATE_GOING_DOWN
              THEN [aud EXCEPT !.pc = "loop", !.loc.freq_anim = DOWN_ANIM]
              ELSE [aud EXCEPT !.pc = "loop"]
    /\ UNCHANGED <<eng, op, ctl, c_count, stopped, thrFrame>>

\* lines 188-198 of one iteration
AudSample ==
    /\ aud.pc = "loop"
    /\ aud.i < aud.frame_count
    /\ LET r == SampleNext(eng, aud.loc, aud.i)
       IN  /\ eng' = r.eng
           /\ IF r.err = NoError
              THEN /\ aud' = [aud EXCEPT !.pc = "check", !.loc = r.loc]
                   /\ UNCHANGED op
              ELSE /\ aud' = AudIdle
                   /\ op' = Outcome("pa_callback", aud.frame_count, r.err, 0, FALSE)
    /\ UNCHANGED <<ctl, c_count, stopped, thrFrame>>

\* lines 201-203 of one iteration
AudCheck ==
    /\ aud.pc = "check"
    /\ LET c == SampleCheck(eng, aud.loc)
       IN  /\ eng' = c.eng
           /\ aud' = [aud EXCEPT !.pc = "loop", !.loc = c.loc, !.i = @ + 1]
    /\ UNCHANGED <<op, ctl, c_count, stopped, thrFrame>>

\* lines 205-209
AudReturn ==
    /\ aud.pc = "loop"
    /\ aud.i >= aud.frame_count
    /\ LET r == AudFinish(eng, aud.loc, aud.frame_count)
       IN  /\ eng' = r.eng
           /\ op' = Outcome("pa_callback", aud.frame_count, r.err, r.len, r.silent)
    /\ aud' = AudIdle
    /\ UNCHANGED <<ctl, c_count, stopped, thrFrame>>

\* the command loop calls an operation, which tests is_active()
\* (lines 135, 145, 158, 161)
CtlCall ==
    \E name \in CtlOps :
        /\ ctl.pc = "idle"
        /\ c_count.ops < MaxCtlOps
        /\ c_count' = [c_count EXCEPT !.ops = @ + 1]
        /\ LET go == IF name = "start" THEN ~IsActive(eng) ELSE IsActive(eng)
               ramp == name \in {"step_up", "step_down"}
           IN  /\ ctl' = IF go
                         THEN [pc |-> IF ramp THEN "reset" ELSE "write", name |-> name]
                         ELSE CtlIdle
               /\ op' = IF go THEN op
                        ELSE Outcome(name, 0, IF ramp THEN InactiveGeneratorError ELSE NoError,
                                     0, FALSE)
               /\ stopped' = IF name = "start" THEN FALSE
                             ELSE IF name = "stop" /\ ~go THEN TRUE
                             ELSE stopped
        /\ UNCHANGED <<eng, aud, thrFrame>>

\* lines 136-138, 146-148
CtlReset ==
    /\ ctl.pc = "reset"
    /\ eng' = IF ctl.name = "step_up"
              THEN IF eng.state # STATE_GOING_UP
                   THEN [eng EXCEPT !.up_freq_anim = AnimReset(@)]
                   ELSE eng
              ELSE IF eng.state # STATE_GOING_DOWN
                   THEN [eng EXCEPT !.down_freq_anim = AnimReset(@)]
                   ELSE eng
    /\ ctl' = [ctl EXCEPT !.pc = "write"]
    /\ UNCHANGED <<op, aud, c_count, stopped, thrFrame>>

\* lines 140, 150, 159, 162: the write of self.state, and the return
CtlWrite ==
    /\ ctl.pc = "write"
    /\ eng' = [eng EXCEPT !.state =
                  CASE ctl.name = "start" -> STATE_STEADY
                    [] ctl.name = "stop" -> STATE_OFF
                    [] ctl.name = "step_up" -> STATE_GOING_UP
                    [] ctl.name = "step_down" -> STATE_GOING_DOWN]
    /\ op' = Outcome(ctl.name, 0, NoError, 0, FALSE)
    /\ stopped' = IF ctl.name = "stop" THEN TRUE ELSE stopped
    /\ ctl' = CtlIdle
    /\ UNCHANGED <<aud, c_count, thrFrame>>

ConcInit ==
    /\ EngIdle
    /\ AnimIdle
    /\ ScIdle
    /\ ThrIdle

ConcNext ==
    \/ AudCall \/ AudBegin \/ AudSelectUp \/ AudSelectDown
    \/ AudSample \/ AudCheck \/ AudReturn
    \/ CtlCall \/ CtlReset \/ CtlWrite

SpecConc == ConcInit /\ [][ConcNext]_vars

\* ------------------------------------------------------------ one thread, sample by sample
\* The same steps of pa_callback / aud_cb, one sample at a time, with the
\* control operations run whole and only between two callbacks: what a
\* single thread calling the engine sees inside an aud_cb call.
CtlOp ==
    \E name \in CtlOps :
        LET r == CASE name = "start" -> [eng |-> Start(eng), err |-> NoError]
                   [] name = "stop" -> [eng |-> Stop(eng), err |-> NoError]
                   [] name = "step_up" -> StepUp(eng)
                   [] name = "step_down" -> StepDown(eng)
        IN  /\ aud.pc = "idle"
            /\ ctl.pc = "idle"
            /\ c_count.ops < MaxCtlOps
            /\ c_count' = [c_count EXCEPT !.ops = @ + 1]
            /\ eng' = r.eng
            /\ op' = Outcome(name, 0, r.err, 0, FALSE)
            /\ stopped' = IF name = "start" THEN FALSE
                          ELSE IF name = "stop" THEN TRUE
                          ELSE stopped
            /\ UNCHANGED <<aud, ctl, thrFrame>>

SamplesInit ==
    /\ EngIdle
    /\ AnimIdle
    /\ ScIdle
    /\ ThrIdle

SamplesNext ==
    \/ AudCall \/ AudBegin \/ AudSelectUp \/ AudSelectDown
    \/ AudSample \/ AudCheck \/ AudReturn
    \/ CtlOp

SpecSamples == SamplesInit /\ [][SamplesNext]_vars

\* ------------------------------------------------------------ claims on the animator
\* C3: after a next() call, once the dt passed since the capturing call sum
\* to at least (sum of |goal|) * time_step, the animator is Done and the
\* value returned is the captured value plus the signed sum of the goals,
\* however the time was split over the calls.  Stated here for animators
\* whose goals are all non-zero, so that the zero-goal branch plays no part.
C3_EnoughTimeCompletes ==
    (/\ a_op = "next"
     /\ AllNonZero(anim.states)
     /\ a_sum >= SumAbs(anim.states) * anim.time_step)
    => (/\ AnimIsDone(anim)
        /\ a_err = NoError
        /\ a_ret = a_first + SumSeq(anim.states))

\* C9: while the animator is Done, next() with any dt and any old_val
\* returns the frozen cur_value and changes nothing, and is_done() keeps
\* reporting Done; only reset() leaves Done.
C9_DoneIsFrozen ==
    [][(AnimIsDone(anim) /\ a_op' # "reset")
       => (/\ anim' = anim
           /\ a_op' = "next" => (a_ret' = anim.cur_value /\ a_err' = NoError)
           /\ a_op' = "is_done" => a_done')]_vars

\* C9 witness: a next() call was made on an animator that was already Done.
C9_Witness ==
    /\ a_op = "next"
    /\ a_pre = DONE_STATE
    /\ AnimIsDone(anim)
    /\ a_ret = anim.cur_value

\* C10: an animator with a zero goal never raises from next(), and after
\* as many due steps as the legs need (one per unit of |goal|, at most one
\* per zero leg) it is Done with the captured value plus the sum of goals.
C10_ZeroLegSkipped ==
    (a_op = "next" /\ HasZeroLeg(anim.states))
    => (/\ a_err = NoError
        /\ a_steps >= SumAbs(anim.states) + Len(anim.states)
           => (AnimIsDone(anim) /\ a_ret = a_first + SumSeq(anim.states)))

\* ------------------------------------------------------------ claims on the engine, one operation at a time
\* C1: step_up() and step_down() on an Off engine raise
\* InactiveGeneratorError and leave the whole engine as it was: state still
\* Off, cur_freq and both animators untouched.
C1_RampWhileOffFails ==
    [][(eng.state = STATE_OFF /\ op'.name \in {"step_up", "step_down"})
       => (op'.err = InactiveGeneratorError /\ eng' = eng)]_vars

\* C1 witness: step_down() has just failed on an engine that was stopped
\* in the middle of a ramp.
C1_Witness ==
    /\ op.name = "step_down"
    /\ op.err = InactiveGeneratorError
    /\ eng.state = STATE_OFF
    /\ eng.cur_freq # START_FREQUENCY
    /\ eng.up_freq_anim.anim_state = RUNNING_STATE

\* C6: stop() during a ramp sets state Off at once and keeps cur_freq; the
\* start() that follows gives Steady at that same cur_freq (the one the last
\* completed aud_cb left), and a callback after that keeps it.
C6_StopStartKeepsFrequency ==
    [][/\ (op'.name = "stop" /\ Ramping(eng))
          => (eng'.state = STATE_OFF /\ eng'.cur_freq = eng.cur_freq)
       /\ (op'.name = "start" /\ stop_phase = 1)
          => (eng'.state = STATE_STEADY /\ eng'.cur_freq = eng.cur_freq)
       /\ (op'.name = "pa_callback" /\ stop_phase = 2 /\ op'.err = NoError)
          => (eng'.state = STATE_STEADY /\ eng'.cur_freq = eng.cur_freq)]_vars

\* C6 witness: stop() in mid-ramp, start(), then a callback that returned a
\* buffer, with the engine Steady away from the starting frequency.
C6_Witness ==
    /\ stop_phase = 3
    /\ op.frame_count > 0
    /\ eng.state = STATE_STEADY
    /\ eng.cur_freq # START_FREQUENCY

\* C7: every aud_cb(frame_count) call, for every frame_count >= 0, returns
\* without raising, with a buffer of frame_count * FRAME_SIZE bytes.
C7_ExactFrames ==
    (op.name = "pa_callback" /\ ~op.silent)
    => (op.err = NoError /\ op.len = op.frame_count * FRAME_SIZE)

\* C8: of two successive Steady aud_cb(n) calls, sample k of the second is
\* synthesized at the time of sample k + n of one aud_cb(2n) call made from
\* the same last_time as the first.
C8_PhaseContinuous ==
    (Len(gen_log) = 2 /\ gen_log[1].frame_count = gen_log[2].frame_count)
    => \A k \in 0..(gen_log[2].frame_count - 1) :
           SampleTime(gen_log[2].last_time, k)
           = SampleTime(gen_log[1].last_time, k + gen_log[1].frame_count)

\* C2: after start() and step_up(), once the callbacks have generated the
\* samples of the ramp's 0.7 s, whatever frame_count they were asked for
\* (1 included), the engine is Steady at START_FREQUENCY + 125 = 345 Hz.
C2_RampCompletes ==
    (sc_pc = "generate" /\ sc_samples >= RampSamples)
    => (/\ eng.state = STATE_STEADY
        /\ eng.cur_freq = START_FREQUENCY + SumSeq(UpLegs))

\* ------------------------------------------------------------ claims on the two threads
\* C4: once stop() has returned and start() has not been called since, the
\* engine is Off whenever no callback is in progress: the aud_cb call that
\* was running when stop() returned does not leave the engine active.
C4_StopSticks ==
    (stopped /\ aud.pc = "idle") => eng.state = STATE_OFF

\* C5: between two samples the engine is never in a torn state: state is
\* never GOING_UP with a Done up_freq_anim, nor GOING_DOWN with a Done
\* down_freq_anim (a pair no run of whole operations produces).
C5_NoTornState ==
    aud.pc # "check"
    => (/\ ~(eng.state = STATE_GOING_UP /\ AnimIsDone(eng.up_freq_anim))
        /\ ~(eng.state = STATE_GOING_DOWN /\ AnimIsDone(eng.down_freq_anim)))

\* ------------------------------------------------------------ further claims on the engine, one operation at a time
\* C11: pa_callback on an Off engine returns the silent buffer of
\* frame_count * FRAME_SIZE bytes without calling aud_cb, and leaves the
\* whole engine as it was: state, cur_freq, last_time, the cached buffer
\* and both animators.
C11_OffCallbackIsSilent ==
    [][(eng.state = STATE_OFF /\ op'.name = "pa_callback")
       => (/\ op'.silent
           /\ op'.err = NoError
           /\ op'.len = op'.frame_count * FRAME_SIZE
           /\ eng' = eng)]_vars

\* C11 witness: a silent buffer of MaxFrames frames was returned by an engine
\* stopped in mid-ramp, whose cached buffer still has another size.
C11_Witness ==
    /\ op.name = "pa_callback"
    /\ op.silent
    /\ op.frame_count = MaxFrames
    /\ op.len = MaxFrames * FRAME_SIZE
    /\ eng.state = STATE_OFF
    /\ eng.buf # op.len
    /\ eng.up_freq_anim.anim_state = RUNNING_STATE

\* C12: the engine starts Off; start() on an Off engine sets Steady and on
\* an active one changes nothing; stop() on an active engine sets Off and on
\* an Off one changes nothing; neither touches cur_freq, last_time or an
\* animator, and doing either twice is the same as doing it once.
C12_StartStopGuarded ==
    /\ eng.state = STATE_OFF
    /\ [][/\ op'.name = "start"
             => (/\ eng' = IF eng.state = STATE_OFF
                           THEN [eng EXCEPT !.state = STATE_STEADY]
                           ELSE eng
                 /\ Start(eng') = eng')
          /\ op'.name = "stop"
             => (/\ eng' = IF eng.state # STATE_OFF
                           THEN [eng EXCEPT !.state = STATE_OFF]
                           ELSE eng
                 /\ Stop(eng') = eng')]_vars

\* C12 witness: start() was called in the middle of a ramp up and the ramp
\* is still on.
C12_Witness ==
    /\ op.name = "start"
    /\ eng.state = STATE_GOING_UP
    /\ eng.up_freq_anim.anim_state = RUNNING_STATE
    /\ eng.cur_freq > START_FREQUENCY

\* C15: step_up() on an active engine ends with state GOING_UP; it resets
\* up_freq_anim to INIT_STATE when state was not GOING_UP and leaves it as
\* it is (leg, progress, accumulated time, value) when state was GOING_UP;
\* down_freq_anim, cur_freq and last_time are not touched.  step_down()
\* likewise with the directions exchanged.
C15_RampRequest ==
    [][/\ (IsActive(eng) /\ op'.name = "step_up")
          => (/\ op'.err = NoError
              /\ eng'.state = STATE_GOING_UP
              /\ eng.state # STATE_GOING_UP
                 => eng'.up_freq_anim = [eng.up_freq_anim EXCEPT !.anim_state = INIT_STATE]
              /\ eng.state = STATE_GOING_UP
                 => eng'.up_freq_anim = eng.up_freq_anim
              /\ eng' = [eng EXCEPT !.state = eng'.state,
                                    !.up_freq_anim = eng'.up_freq_anim])
       /\ (IsActive(eng) /\ op'.name = "step_down")
          => (/\ op'.err = NoError
              /\ eng'.state = STATE_GOING_DOWN
              /\ eng.state # STATE_GOING_DOWN
                 => eng'.down_freq_anim = [eng.down_freq_anim EXCEPT !.anim_state = INIT_STATE]
              /\ eng.state = STATE_GOING_DOWN
                 => eng'.down_freq_anim = eng.down_freq_anim
              /\ eng' = [eng EXCEPT !.state = eng'.state,
                                    !.down_freq_anim = eng'.down_freq_anim])]_vars

\* C15 witness: step_up() has returned and up_freq_anim is Running part-way
\* through a leg, so the call came during a ramp up and did not reset it.
C15_Witness ==
    /\ op.name = "step_up"
    /\ op.err = NoError
    /\ eng.state = STATE_GOING_UP
    /\ eng.up_freq_anim.anim_state = RUNNING_STATE
    /\ eng.up_freq_anim.state_progress > 0

\* C18: cur_freq is positive in every state reachable by start, stop,
\* step_up, step_down and callbacks from the initial engine.
C18_FrequencyPositive == eng.cur_freq > 0

\* C19: between whole operations, state GOING_UP implies up_freq_anim is
\* not Done and state GOING_DOWN implies down_freq_anim is not Done.
C19_RampingIsLive ==
    /\ eng.state = STATE_GOING_UP => ~AnimIsDone(eng.up_freq_anim)
    /\ eng.state = STATE_GOING_DOWN => ~AnimIsDone(eng.down_freq_anim)

\* C19 witness: a ramp up was requested again after an earlier ramp up ran
\* to its end: the animator is back in INIT_STATE with the finished run's
\* leg index still in it.
C19_Witness ==
    /\ op.name = "step_up"
    /\ eng.state = STATE_GOING_UP
    /\ eng.up_freq_anim.anim_state = INIT_STATE
    /\ eng.up_freq_anim.state_i = Len(UpLegs)
    /\ eng.cur_freq = START_FREQUENCY + SumSeq(UpLegs)

\* C14: from any state with a ramp on, aud_cb(n + m) and aud_cb(n) followed
\* by aud_cb(m) leave the same cur_freq, the same state and the same
\* progress (lifecycle, leg index, leg progress) in both animators.
SplitPairs ==
    { <<MaxFrames \div 8, MaxFrames \div 8>>,
      <<1, MaxFrames \div 8>>,
      <<MaxFrames \div 8, 1>> }

AnimProgress(a) == <<a.anim_state, a.state_i, a.state_progress>>

C14_SplitIndependent ==
    Ramping(eng)
    => \A p \in SplitPairs :
           LET whole  == AudCb(eng, p[1] + p[2])
               first  == AudCb(eng, p[1])
               second == AudCb(first.eng, p[2])
           IN  /\ whole.eng.cur_freq = second.eng.cur_freq
               /\ whole.eng.state = second.eng.state
               /\ AnimProgress(whole.eng.up_freq_anim)
                  = AnimProgress(second.eng.up_freq_anim)
               /\ AnimProgress(whole.eng.down_freq_anim)
                  = AnimProgress(second.eng.down_freq_anim)

\* ------------------------------------------------------------ further claims on the animator
\* C13: after every next() call in which a step was applied, accum_time is
\* below time_step, whatever the dt passed (dt above time_step included).
C13_ResidualBelowStep ==
    [][(/\ a_op' = "next"
        /\ a_err' = NoError
        /\ a_steps' = (IF anim.anim_state = INIT_STATE THEN 0 ELSE a_steps) + 1)
       => anim'.accum_time < anim'.time_step]_vars

\* C17, as the claim states it: the first next(dt, old_val) after
\* construction or reset() captures old_val, leaves leg index 0, leg
\* progress 0 and accumulated time 0, is Running afterwards and returns
\* old_val, for every dt >= 0.  Taken here on animators whose goals are all
\* non-zero, where no call raises.
C17_CaptureReturnsInput ==
    (a_op = "next" /\ a_pre = INIT_STATE /\ AllNonZero(anim.states))
    => (/\ a_err = NoError
        /\ a_ret = a_first
        /\ anim.cur_value = a_first
        /\ anim.state_i = 0
        /\ anim.state_progress = 0
        /\ anim.accum_time = 0
        /\ anim.anim_state = RUNNING_STATE)

\* C17, amended: the first next(dt, old_val) after construction or reset()
\* captures old_val with leg index 0, leg progress 0 and accumulated time 0
\* and then handles dt in the same call, as a Running animator does.  With
\* dt < time_step it returns old_val, is Running and has accumulated dt;
\* with dt >= time_step and a non-zero first goal it applies one step in the
\* capturing call: it returns old_val + 1 or old_val - 1 (towards the goal),
\* keeps dt - time_step, and has moved one unit into the first leg or, when
\* that unit completes the leg, on to the next leg.
C17_CaptureThenRun ==
    [][(anim.anim_state = INIT_STATE /\ a_op' = "next")
       => LET dt == a_sum'
              old_val == a_first'
              goals == anim.states
              captured == [anim EXCEPT !.cur_value = old_val,
                                       !.state_i = 0,
                                       !.state_progress = 0,
                                       !.accum_time = dt,
                                       !.anim_state = RUNNING_STATE]
          IN  /\ dt < anim.time_step
                 => (/\ a_err' = NoError
                     /\ a_ret' = old_val
                     /\ anim' = captured)
              /\ (dt >= anim.time_step /\ Len(goals) > 0 /\ goals[1] # 0)
                 => (/\ a_err' = NoError
                     /\ a_ret' = old_val + Direction(goals[1])
                     /\ anim'.cur_value = a_ret'
                     /\ anim'.accum_time = dt - anim.time_step
                     /\ anim'.anim_state # INIT_STATE
                     /\ IF Abs(goals[1]) = 1
                        THEN anim'.state_i = 1 /\ anim'.state_progress = 0
                        ELSE anim'.state_i = 0
                             /\ anim'.state_progress = Direction(goals[1]))]_vars

\* C17 witness: a capturing call has returned a value other than the one it
\* captured and kept a residue of its dt.
C17_Witness ==
    /\ a_op = "next"
    /\ a_pre = INIT_STATE
    /\ a_err = NoError
    /\ a_ret # a_first
    /\ anim.accum_time > 0
    /\ anim.anim_state = RUNNING_STATE

\* C20: for an animator whose goals are all non-zero (and not empty), every
\* next() call returns without raising and changes the running value by at
\* most 1, and whenever it leaves the animator Running the leg index is
\* within the goals, the leg progress lies between 0 and the leg's goal
\* (on the goal's side of 0, short of the goal), and cur_value is the
\* captured value plus the goals of the completed legs plus the progress.
C20_RunningShape ==
    [][(a_op' = "next" /\ AllNonZero(anim.states))
       => LET before == IF anim.anim_state = INIT_STATE THEN a_first' ELSE anim.cur_value
              b == anim'
          IN  /\ a_err' = NoError
              /\ a_ret' = b.cur_value
              /\ Abs(b.cur_value - before) <= 1
              /\ b.anim_state = RUNNING_STATE
                 => (/\ b.state_i \in 0..(Len(b.states) - 1)
                     /\ b.state_progress * b.states[b.state_i + 1] >= 0
                     /\ Abs(b.state_progress) < Abs(b.states[b.state_i + 1])
                     /\ b.cur_value = a_first' + SumSeq(SubSeq(b.states, 1, b.state_i))
                                      + b.state_progress)]_vars

\* C20 witness: a Running animator part-way through its second leg.
C20_Witness ==
    /\ a_op = "next"
    /\ AllNonZero(anim.states)
    /\ anim.anim_state = RUNNING_STATE
    /\ anim.state_i = 1
    /\ anim.state_progress # 0
    /\ anim.cur_value = a_first + anim.states[1] + anim.state_progress

\* ------------------------------------------------------------ claims on one thread, sample by sample
\* the frequency in use: the local freq of the aud_cb call in progress,
\* otherwise cur_freq
FreqInUse ==
    IF aud.pc \in {"select_up", "select_down", "loop", "check"}
    THEN aud.loc.freq
    ELSE eng.cur_freq

\* C16: at the sample at which the animator of the ramp in progress reports
\* Done, state becomes Steady and the frequency stays as that sample left
\* it; from then on, through the remaining samples of the call, its return
\* and every later operation, the frequency does not change as long as no
\* step_up() or step_down() puts the engine back into a ramp.
C16_DoneFreezesFrequency ==
    [][/\ (/\ aud.pc = "check"
           /\ aud.loc.freq_anim # CONST_ANIM
           /\ AnimIsDone(eng[aud.loc.freq_anim]))
          => (/\ eng'.state = STATE_STEADY
              /\ aud'.loc.freq_anim = CONST_ANIM
              /\ FreqInUse' = FreqInUse)
       /\ (~Ramping(eng) /\ ~Ramping(eng'))
          => FreqInUse' = FreqInUse]_vars

\* C16 witness: inside the aud_cb call in which the ramp up ended, with
\* samples still to come: state is Steady, the local frequency is the
\* ramp's end value while cur_freq still holds the value from before the call.
C16_Witness ==
    /\ aud.pc = "loop"
    /\ aud.i < aud.frame_count
    /\ aud.loc.freq_anim = CONST_ANIM
    /\ eng.state = STATE_STEADY
    /\ AnimIsDone(eng.up_freq_anim)
    /\ aud.loc.freq = START_FREQUENCY + SumSeq(UpLegs)
    /\ eng.cur_freq = START_FREQUENCY

====
